---- MODULE Spec2Model ----
(***************************************************************************)
(* Model of src/aptekonline.py: the listing resolver (get_pharmacy_ids),   *)
(* the per-page worker (scrape_pharmacy_page), the thread-pool coordinator *)
(* (scrape_all_pharmacies), the sink (save_to_csv) and main.               *)
(*                                                                         *)
(* The network is the environment: every response is drawn from a small    *)
(* set when the request returns. Worker threads of the ThreadPoolExecutor  *)
(* are the slots 1..max_workers; the executor's work queue is FIFO, so the *)
(* next task a free slot takes is the oldest pending future.               *)
(***************************************************************************)
EXTENDS Integers, Sequences, FiniteSets, TLC

\* ---------------------------------------------------------------- bounds
MaxN == 2          \* longest listing the resolver returns in the model
MaxWorkers == 2    \* largest max_workers the coordinator is run with

VARIABLES
    pc,             \* position of the main thread
    max_workers,    \* argument of scrape_all_pharmacies
    pharmacy_list,  \* result of get_pharmacy_ids
    basic_info,     \* lookup id -> listing entry (line 195)
    futures,        \* future_to_id: one future per submitted task
    worker,         \* slot -> index of the future it is running, 0 when idle
    last_task,      \* slot -> index of the future it ran before, 0 when none
    yielded,        \* futures as_completed has already handed to the loop
    cur,            \* the future the loop body is handling (0 outside the body)
    completed,      \* the loop's counter
    results,        \* merged rows
    errors,         \* failure records
    slept,          \* futures whose time.sleep(DELAY_BETWEEN_REQUESTS) is over
    csv,            \* the output file: NoFile, or [header, rows]
    report,         \* the summary main prints: NoReport, or the counts
    listing_resp,   \* what the listing request gave (NoResponse before it)
    raised,         \* text of the exception that left main ("" when none)
    hash_order,     \* iteration order of a set of strings in this process
    fn_pc,          \* position of the direct calls of the functions ("off" in main)
    fn_in,          \* arguments of the direct calls
    fn_out          \* what the direct calls returned

vars == <<pc, max_workers, pharmacy_list, basic_info, futures, worker, last_task,
          yielded, cur, completed, results, errors, slept, csv, report,
          listing_resp, raised, hash_order, fn_pc, fn_in, fn_out>>

main_vars == <<pc, max_workers, pharmacy_list, basic_info, futures, worker, last_task,
               yielded, cur, completed, results, errors, slept, csv, report,
               listing_resp, raised>>

fn_vars == <<fn_pc, fn_in, fn_out>>

\* ------------------------------------------------------------ conversions
\* str(n) for a non-negative integer (the f-strings and str() of the source)
Digit(d) == <<"0", "1", "2", "3", "4", "5", "6", "7", "8", "9">>[d + 1]

RECURSIVE str(_)
str(n) == IF n < 10 THEN Digit(n) ELSE str(n \div 10) \o Digit(n % 10)

\* dict.get(key, default)
Get(d, key, default) == IF key \in DOMAIN d THEN d[key] ELSE default

\* str(dict.get(key)): the default forgotten, None printed
StrGetNone(d, key) == IF key \in DOMAIN d THEN str(d[key]) ELSE "None"

\* str(dict.get(key, '')) for an integer-valued key
StrGet(d, key) == IF key \in DOMAIN d THEN str(d[key]) ELSE ""

\* dict with one more key set (d[key] = value)
Put(d, key, value) ==
    [k \in DOMAIN d \cup {key} |-> IF k = key THEN value ELSE d[k]]

Range(s) == {s[k] : k \in DOMAIN s}

\* '; '.join(seq)
RECURSIVE Join(_)
Join(seq) ==
    IF seq = <<>> THEN ""
    ELSE IF Len(seq) = 1 THEN seq[1]
    ELSE seq[1] \o "; " \o Join(Tail(seq))

\* [x for x in seq if x]
NonEmpty(seq) == SelectSeq(seq, LAMBDA x : x # "")

\* The order in which this process iterates a set of strings: it follows the
\* strings' hashes, which are salted anew each time the interpreter starts.
HashOrders == {<<"+994111", "+994222">>, <<"+994222", "+994111">>}

\* list(set(seq)) under an iteration order
ListOfSet(seq, order) == SelectSeq(order, LAMBDA x : x \in Range(seq))

BASE_URL == "https://aptekonline.az"

\* ------------------------------------------------------------ the listing
\* The embedded array of the listing page. Identifiers are opaque to the
\* program, so listings are taken up to renaming: position k carries an
\* identifier already used or the next fresh one (every pattern of repeated
\* identifiers occurs), and content that differs from position to position.
\* Entries at even positions lack the optional keys. The pattern of line 57
\* needs a first element, so a listing that resolves is never empty.
NthId(j) == 100 + j

ListingEntry(k, id) ==
    IF k % 2 = 1
    THEN [id |-> id, thumbImg |-> "thumb" \o str(k) \o ".jpg",
          pharmacyName |-> "Aptek " \o str(k), pharmacyTel |-> "012-" \o str(k),
          pharmacyMob |-> "050-" \o str(k), isduty |-> 1, optika |-> 0]
    ELSE [id |-> id, thumbImg |-> "thumb" \o str(k) \o ".jpg",
          pharmacyName |-> "Aptek " \o str(k), isduty |-> 0]

UsedIds(l) == {l[k].id : k \in DOMAIN l}

RECURSIVE ListingsOfLen(_)
ListingsOfLen(n) ==
    IF n = 0 THEN {<<>>}
    ELSE UNION {{Append(l, ListingEntry(n, id)) :
                    id \in UsedIds(l) \cup {NthId(Cardinality(UsedIds(l)) + 1)}} :
                l \in ListingsOfLen(n - 1)}

Listings == UNION {ListingsOfLen(n) : n \in 1..MaxN}

\* What session.get(BASE_URL/pharmacies) and the search of line 57 can give.
ListingResponses ==
    {[kind |-> "exception", text |-> "Connection refused"],
     [kind |-> "response", status_code |-> 503],
     [kind |-> "response", status_code |-> 200, block |-> "absent"],
     [kind |-> "response", status_code |-> 200, block |-> "truncated"]}
    \cup {[kind |-> "response", status_code |-> 200, block |-> "array", array |-> l] :
            l \in Listings}

\* get_pharmacy_ids with every failure turned into an empty list
get_pharmacy_ids_lenient(resp) ==
    IF resp.kind = "response" /\ resp.status_code = 200 /\ resp.block = "array"
    THEN [raised |-> FALSE, value |-> resp.array]
    ELSE [raised |-> FALSE, value |-> <<>>]

\* get_pharmacy_ids: the list it returns, or the exception it raises
get_pharmacy_ids(resp) ==
    IF resp.kind = "exception"
    THEN [raised |-> TRUE, text |-> resp.text]
    ELSE IF resp.status_code # 200
    THEN [raised |-> TRUE,
          text |-> "Failed to fetch pharmacy list: " \o str(resp.status_code)]
    ELSE IF resp.block = "absent"
    THEN [raised |-> TRUE, text |-> "Could not find pharmacy data in page"]
    ELSE IF resp.block = "truncated"
    THEN [raised |-> TRUE, text |-> "JSONDecodeError"]
    ELSE [raised |-> FALSE, value |-> resp.array]

\* ------------------------------------------------------- the detail page
\* A detail page, as the lookups of scrape_pharmacy_page see it: a record
\* with one key for each block the markup holds.
\*   title        text of <title> before the brand suffix (lines 85-89)
\*   description  content of <meta name="description">
\*   card_header  text of div.card-header
\*   contact      div.contact-aptek: marker (text beside i.fa-map-marker),
\*                first_p (text of its first <p>), phone (text beside
\*                i.fa-phone), eye (an i.fa-eye is there)
\*   script       the lat: and lng: literals of the initMapPharmacies call;
\*                a literal is [paren, num], num "" when it is no number
\*   aptek_pinto  div.aptek-pinto: src of its img.img-fluid when it has one
\*   tel_links    targets of the <a href="tel:..."> links, in page order
\*   partniyor    titles of the titled images of section.partniyor
\*   tab_gallery  src of the images of div.tab-gallery
Blocks ==
    {"title", "description", "card_header", "contact", "script", "aptek_pinto",
     "tel_links", "partniyor", "tab_gallery"}

Variants == {1, 2, 3}

Literal(paren, num) == [paren |-> paren, num |-> num]

BlockValue(b, v) ==
    CASE b = "title" -> <<"Zeytun Aptek", "", "Kanon">>[v]
      [] b = "description" -> <<"Aptek haqqinda", "", "24 saat">>[v]
      [] b = "card_header" -> <<"Baki", "Gence", "">>[v]
      [] b = "contact" ->
            <<[marker |-> "Nizami 5", first_p |-> "Nizami 5", phone |-> "012-555",
               eye |-> TRUE],
              [first_p |-> "Xetai 9", eye |-> FALSE],
              [eye |-> FALSE]>>[v]
      [] b = "script" ->
            <<[lat |-> Literal(TRUE, "40.123"), lng |-> Literal(TRUE, "49.456")],
              [lat |-> Literal(FALSE, "40.5"), lng |-> Literal(FALSE, "")],
              [lat |-> Literal(FALSE, "40.5"), lng |-> Literal(TRUE, "49.8")]>>[v]
      [] b = "aptek_pinto" ->
            <<[src |-> "/img/a.jpg"], [img |-> FALSE], [src |-> ""]>>[v]
      [] b = "tel_links" ->
            <<<<"+994111", "+994222", "+994111">>, <<"+994111">>,
              <<"+994222", "+994111">>>>[v]
      [] b = "partniyor" -> <<<<"A", "B", "A">>, <<>>, <<"", "C">>>>[v]
      [] b = "tab_gallery" -> <<<<"/g/1.jpg", "/g/2.jpg">>, <<>>, <<"/g/1.jpg", "">>>>[v]

\* every choice of blocks, in each variant
AllPages == {[b \in S |-> BlockValue(b, v)] : S \in SUBSET Blocks, v \in Variants}

\* the pages the requests of a run give: one with blocks, one with nearly none
DetailPages ==
    {[title |-> "Zeytun Aptek", description |-> "Aptek haqqinda",
      card_header |-> "Baki",
      script |-> [lat |-> Literal(FALSE, "40.123"), lng |-> Literal(FALSE, "49.456")],
      tel_links |-> <<"+994111", "+994222">>],
     [description |-> ""]}

\* What session.get(BASE_URL/pharmacies/<id>) and the extraction can give:
\* an exception raised inside the try of line 72, a status other than 200,
\* a page, or an exception that leaves the call and is stored in the future.
DetailResponses ==
    {[kind |-> "exception", text |-> "Read timed out"],
     [kind |-> "response", status_code |-> 404],
     [kind |-> "escaped", text |-> "RuntimeError"]}
    \cup {[kind |-> "response", status_code |-> 200, page |-> p] : p \in DetailPages}

page_url(pharmacy_id) == BASE_URL \o "/pharmacies/" \o str(pharmacy_id)

\* the link built whatever the coordinates are
google_maps_url_always(latitude, longitude) ==
    "https://www.google.com/maps?q=" \o latitude \o "," \o longitude

\* lines 171-175
google_maps_url(latitude, longitude) ==
    IF latitude # "" /\ longitude # ""
    THEN "https://www.google.com/maps?q=" \o latitude \o "," \o longitude
    ELSE ""

\* lines 127-130: the search succeeds when both literals are numbers
map_coords(page) ==
    IF "script" \in DOMAIN page /\ page.script.lat.num # "" /\ page.script.lng.num # ""
    THEN [matched |-> TRUE, group1 |-> page.script.lat.num,
          group2 |-> page.script.lng.num]
    ELSE [matched |-> FALSE]

\* lines 100-109
address(page) ==
    IF "contact" \in DOMAIN page
    THEN IF "marker" \in DOMAIN page.contact
         THEN page.contact.marker
         ELSE Get(page.contact, "first_p", "")
    ELSE ""

\* lines 111-116, 123
contact_phone(page) ==
    IF "contact" \in DOMAIN page THEN Get(page.contact, "phone", "") ELSE ""

\* lines 118-120, 124
has_optika_service(page) ==
    IF "contact" \in DOMAIN page /\ page.contact.eye THEN "1" ELSE "0"

\* lines 139-144
image_url(page) ==
    IF "aptek_pinto" \in DOMAIN page THEN Get(page.aptek_pinto, "src", "") ELSE ""

\* lines 147-149
all_phones(page, order) == Join(ListOfSet(Get(page, "tel_links", <<>>), order))

\* lines 152-158
insurance_partners(page) == Join(NonEmpty(Get(page, "partniyor", <<>>)))

\* lines 161-169
gallery_urls(page) == NonEmpty(Get(page, "tab_gallery", <<>>))

\* lines 82-179: the record built from a page
Extract(pharmacy_id, page) ==
    LET coords == map_coords(page)
        latitude == IF coords.matched THEN coords.group1 ELSE ""
        longitude == IF coords.matched THEN coords.group2 ELSE ""
        base == [id |-> pharmacy_id,
                 description |-> Get(page, "description", ""),
                 region |-> Get(page, "card_header", ""),
                 address |-> address(page),
                 contact_phone |-> contact_phone(page),
                 has_optika_service |-> has_optika_service(page),
                 latitude |-> latitude,
                 longitude |-> longitude,
                 image_url |-> image_url(page),
                 all_phones |-> all_phones(page, hash_order),
                 insurance_partners |-> insurance_partners(page),
                 gallery_images |-> Join(gallery_urls(page)),
                 gallery_count |-> str(Len(gallery_urls(page))),
                 google_maps_url |-> google_maps_url(latitude, longitude),
                 page_url |-> page_url(pharmacy_id)]
    IN IF "title" \in DOMAIN page THEN Put(base, "name", page.title) ELSE base

\* scrape_pharmacy_page: the dict it returns, or the exception it raises
scrape_pharmacy_page(pharmacy_id, resp) ==
    IF resp.kind = "escaped"
    THEN [raised |-> TRUE, text |-> resp.text]
    ELSE IF resp.kind = "exception"
    THEN [raised |-> FALSE, value |-> [id |-> pharmacy_id, error |-> resp.text]]
    ELSE IF resp.status_code # 200
    THEN [raised |-> FALSE,
          value |-> [id |-> pharmacy_id, error |-> "HTTP " \o str(resp.status_code)]]
    ELSE [raised |-> FALSE, value |-> Extract(pharmacy_id, resp.page)]

\* ------------------------------------------------------------- the merge
\* line 195: {p['id']: p for p in pharmacy_list}; a later entry replaces an
\* earlier one with the same id
BasicInfo(list) ==
    [id \in UsedIds(list) |->
        list[CHOOSE k \in DOMAIN list :
                /\ list[k].id = id
                /\ \A j \in DOMAIN list : list[j].id = id => j <= k]]

ListingKeys ==
    {"thumb_image", "pharmacy_name_main", "pharmacy_tel", "pharmacy_mob",
     "is_duty_24h", "has_optika"}

\* lines 216-222
Merge(result, basic) ==
    [k \in DOMAIN result \cup ListingKeys |->
        CASE k = "thumb_image" -> Get(basic, "thumbImg", "")
          [] k = "pharmacy_name_main" -> Get(basic, "pharmacyName", "")
          [] k = "pharmacy_tel" -> Get(basic, "pharmacyTel", "")
          [] k = "pharmacy_mob" -> Get(basic, "pharmacyMob", "")
          [] k = "is_duty_24h" -> StrGet(basic, "isduty")
          [] k = "has_optika" -> StrGet(basic, "optika")
          [] OTHER -> result[k]]

\* basic_info.get(pharmacy_id, {})
Lookup(info, pharmacy_id) ==
    IF pharmacy_id \in DOMAIN info THEN info[pharmacy_id] ELSE <<>>

\* --------------------------------------------------------------- the sink
columns ==
    <<"id", "name", "pharmacy_name_main", "description", "region", "address",
      "latitude", "longitude", "contact_phone", "pharmacy_tel", "pharmacy_mob",
      "all_phones", "is_duty_24h", "has_optika", "has_optika_service",
      "insurance_partners", "image_url", "thumb_image", "gallery_images",
      "gallery_count", "google_maps_url", "page_url">>

\* a writer that prints None for a key the record lacks
CsvRowNone(r) ==
    [c \in DOMAIN columns |->
        IF columns[c] \in DOMAIN r
        THEN (IF columns[c] = "id" THEN str(r.id) ELSE r[columns[c]])
        ELSE "None"]

\* DictWriter(fieldnames=columns, extrasaction='ignore'): one cell per column,
\* in column order, '' for a key the record lacks
CsvRow(r) ==
    [c \in DOMAIN columns |->
        IF columns[c] \in DOMAIN r
        THEN (IF columns[c] = "id" THEN str(r.id) ELSE r[columns[c]])
        ELSE ""]

NoFile == [written |-> FALSE]
NoReport == [printed |-> FALSE]

NoResponse == [kind |-> "none"]

\* ------------------------------------------------------------ the program
\* a pool with one thread more than asked for
SlotsOneMore(n) == 1..(n + 1)

\* the worker threads of ThreadPoolExecutor(max_workers=max_workers)
Slots(n) == 1..n

Init ==
    /\ pc = "start"
    /\ max_workers \in 1..MaxWorkers
    /\ pharmacy_list = <<>>
    /\ basic_info = <<>>
    /\ futures = <<>>
    /\ worker = [w \in Slots(max_workers) |-> 0]
    /\ last_task = [w \in Slots(max_workers) |-> 0]
    /\ yielded = {}
    /\ cur = 0
    /\ completed = 0
    /\ results = <<>>
    /\ errors = <<>>
    /\ slept = {}
    /\ csv = NoFile
    /\ report = NoReport
    /\ listing_resp = NoResponse
    /\ raised = ""
    /\ hash_order \in HashOrders
    /\ fn_pc = "off"
    /\ fn_in = <<>>
    /\ fn_out = <<>>

\* main, lines 282-285: the listing is resolved, or its exception leaves main
GetPharmacyIds ==
    /\ UNCHANGED <<hash_order, fn_vars>>
    /\ pc = "start"
    /\ \E resp \in ListingResponses :
         LET r == get_pharmacy_ids(resp)
         IN /\ listing_resp' = resp
            /\ IF r.raised
               THEN pc' = "aborted" /\ raised' = r.text /\ UNCHANGED pharmacy_list
               ELSE pc' = "listed" /\ pharmacy_list' = r.value /\ UNCHANGED raised
    /\ UNCHANGED <<max_workers, basic_info, futures, worker, last_task, yielded, cur,
                   completed, results, errors, slept, csv, report>>

\* scrape_all_pharmacies, lines 187-195
EnterScrape ==
    /\ UNCHANGED <<hash_order, fn_vars>>
    /\ pc = "listed"
    /\ results' = <<>>
    /\ errors' = <<>>
    /\ basic_info' = BasicInfo(pharmacy_list)
    /\ pc' = IF pharmacy_list = <<>> THEN "collecting" ELSE "submitting"
    /\ UNCHANGED <<max_workers, pharmacy_list, futures, worker, last_task, yielded, cur,
                   completed, slept, csv, report, listing_resp, raised>>

\* lines 198-201: one executor.submit per entry of the list, in list order
Submit ==
    /\ UNCHANGED <<hash_order, fn_vars>>
    /\ pc = "submitting"
    /\ LET p == pharmacy_list[Len(futures) + 1]
       IN futures' = Append(futures, [id |-> p.id, state |-> "PENDING"])
    /\ pc' = IF Len(futures') = Len(pharmacy_list) THEN "collecting" ELSE "submitting"
    /\ UNCHANGED <<max_workers, pharmacy_list, basic_info, worker, last_task, yielded,
                   cur, completed, results, errors, slept, csv, report, listing_resp,
                   raised>>

Pending == {i \in DOMAIN futures : futures[i].state = "PENDING"}
Running == {i \in DOMAIN futures : futures[i].state = "RUNNING"}
Finished == {i \in DOMAIN futures : futures[i].state = "FINISHED"}

\* the head of the executor's work queue
NextPending == CHOOSE i \in Pending : \A j \in Pending : i <= j

\* a free worker thread takes the oldest pending task and calls
\* scrape_pharmacy_page (line 199)
WorkerStart(w) ==
    /\ UNCHANGED <<hash_order, fn_vars>>
    /\ worker[w] = 0
    /\ Pending # {}
    /\ worker' = [worker EXCEPT ![w] = NextPending]
    /\ futures' = [futures EXCEPT ![NextPending].state = "RUNNING"]
    /\ UNCHANGED <<pc, max_workers, pharmacy_list, basic_info, last_task, yielded, cur,
                   completed, results, errors, slept, csv, report, listing_resp, raised>>

\* a worker that puts its outcome into results or errors itself
WorkerFinishAppends(w) ==
    /\ UNCHANGED <<hash_order, fn_vars>>
    /\ worker[w] # 0
    /\ \E resp \in DetailResponses :
         LET i == worker[w]
             o == scrape_pharmacy_page(futures[i].id, resp)
         IN /\ futures' = [futures EXCEPT ![i] =
                              [id |-> @.id, state |-> "FINISHED", resp |-> resp,
                               outcome |-> o]]
            /\ IF o.raised \/ "error" \in DOMAIN o.value
               THEN errors' = Append(errors, [id |-> futures[i].id, error |-> "failed"])
                    /\ UNCHANGED results
               ELSE results' = Append(results, o.value) /\ UNCHANGED errors
    /\ last_task' = [last_task EXCEPT ![w] = worker[w]]
    /\ worker' = [worker EXCEPT ![w] = 0]
    /\ UNCHANGED <<pc, max_workers, pharmacy_list, basic_info, yielded, cur, completed,
                   slept, csv, report, listing_resp, raised>>

\* scrape_pharmacy_page returns (or raises) and the future is done
WorkerFinish(w) ==
    /\ UNCHANGED <<hash_order, fn_vars>>
    /\ worker[w] # 0
    /\ \E resp \in DetailResponses :
         LET i == worker[w]
         IN futures' = [futures EXCEPT ![i] =
                           [id |-> @.id, state |-> "FINISHED", resp |-> resp,
                            outcome |-> scrape_pharmacy_page(@.id, resp)]]
    /\ last_task' = [last_task EXCEPT ![w] = worker[w]]
    /\ worker' = [worker EXCEPT ![w] = 0]
    /\ UNCHANGED <<pc, max_workers, pharmacy_list, basic_info, yielded, cur, completed,
                   results, errors, slept, csv, report, listing_resp, raised>>

\* the loop body without its else: a failure is also appended to results
LoopBodyBoth(res, errs, info, pharmacy_id, outcome) ==
    IF outcome.raised
    THEN [results |-> res,
          errors |-> Append(errs, [id |-> pharmacy_id, error |-> outcome.text])]
    ELSE IF "error" \in DOMAIN outcome.value
    THEN [results |-> Append(res, outcome.value), errors |-> Append(errs, outcome.value)]
    ELSE [results |-> Append(res, Merge(outcome.value, Lookup(info, pharmacy_id))),
          errors |-> errs]

\* the loop body with an except branch that records nothing
LoopBodySwallow(res, errs, info, pharmacy_id, outcome) ==
    IF outcome.raised
    THEN [results |-> res, errors |-> errs]
    ELSE IF "error" \in DOMAIN outcome.value
    THEN [results |-> res, errors |-> Append(errs, outcome.value)]
    ELSE [results |-> Append(res, Merge(outcome.value, Lookup(info, pharmacy_id))),
          errors |-> errs]

\* the loop body joining by position: the n-th result with the n-th entry
LoopBodyPositional(res, errs, info, pharmacy_id, outcome) ==
    IF outcome.raised
    THEN [results |-> res,
          errors |-> Append(errs, [id |-> pharmacy_id, error |-> outcome.text])]
    ELSE IF "error" \in DOMAIN outcome.value
    THEN [results |-> res, errors |-> Append(errs, outcome.value)]
    ELSE [results |-> Append(res, Merge(outcome.value, pharmacy_list[completed + 1])),
          errors |-> errs]

\* lines 208-229: where the loop body puts the outcome of one future
LoopBody(res, errs, info, pharmacy_id, outcome) ==
    IF outcome.raised
    THEN [results |-> res,
          errors |-> Append(errs, [id |-> pharmacy_id, error |-> outcome.text])]
    ELSE IF "error" \in DOMAIN outcome.value
    THEN [results |-> res, errors |-> Append(errs, outcome.value)]
    ELSE [results |-> Append(res, Merge(outcome.value, Lookup(info, pharmacy_id))),
          errors |-> errs]

\* as_completed hands each finished future to the loop once
CanYield(i) == i \in Finished /\ i \notin yielded

\* lines 204-229: one iteration of the loop, up to the sleep
Collect(i) ==
    /\ UNCHANGED <<hash_order, fn_vars>>
    /\ pc = "collecting"
    /\ CanYield(i)
    /\ yielded' = yielded \cup {i}
    /\ completed' = completed + 1
    /\ cur' = i
    /\ LET b == LoopBody(results, errors, basic_info, futures[i].id, futures[i].outcome)
       IN results' = b.results /\ errors' = b.errors
    /\ pc' = "sleeping"
    /\ UNCHANGED <<max_workers, pharmacy_list, basic_info, futures, worker, last_task,
                   slept, csv, report, listing_resp, raised>>

\* line 231: time.sleep(DELAY_BETWEEN_REQUESTS) is over
Sleep ==
    /\ UNCHANGED <<hash_order, fn_vars>>
    /\ pc = "sleeping"
    /\ slept' = slept \cup {cur}
    /\ cur' = 0
    /\ pc' = "collecting"
    /\ UNCHANGED <<max_workers, pharmacy_list, basic_info, futures, worker, last_task,
                   yielded, completed, results, errors, csv, report, listing_resp,
                   raised>>

\* a loop that waits for one future more than were submitted
PoolDoneOffByOne ==
    /\ Cardinality(yielded) = Len(futures) + 1
    /\ \A w \in DOMAIN worker : worker[w] = 0

\* the loop left after the first future, the pool not joined
PoolDoneEarly == yielded # {}

\* as_completed is exhausted and the with block has joined the workers
PoolDone == yielded = DOMAIN futures /\ \A w \in DOMAIN worker : worker[w] = 0

\* lines 197 (exit of the with block) and 233
Return ==
    /\ UNCHANGED <<hash_order, fn_vars>>
    /\ pc = "collecting"
    /\ PoolDone
    /\ pc' = "returned"
    /\ UNCHANGED <<max_workers, pharmacy_list, basic_info, futures, worker, last_task,
                   yielded, cur, completed, results, errors, slept, csv, report,
                   listing_resp, raised>>

\* save_to_csv without the early return of lines 238-240
save_to_csv_always(data, file) ==
    [written |-> TRUE, header |-> columns,
     rows |-> [k \in DOMAIN data |-> CsvRow(data[k])]]

\* save_to_csv, lines 236-271: the file it leaves
save_to_csv(data, file) ==
    IF data = <<>>
    THEN file
    ELSE [written |-> TRUE, header |-> columns,
          rows |-> [k \in DOMAIN data |-> CsvRow(data[k])]]

\* main, line 291
SaveToCsv ==
    /\ UNCHANGED <<hash_order, fn_vars>>
    /\ pc = "returned"
    /\ csv' = save_to_csv(results, csv)
    /\ pc' = "saved"
    /\ UNCHANGED <<max_workers, pharmacy_list, basic_info, futures, worker, last_task,
                   yielded, cur, completed, results, errors, slept, report,
                   listing_resp, raised>>

Min(a, b) == IF a <= b THEN a ELSE b

\* main, lines 293-306: the counts and the capped sample of failures
Summary ==
    /\ UNCHANGED <<hash_order, fn_vars>>
    /\ pc = "saved"
    /\ report' = [printed |-> TRUE, total |-> Len(pharmacy_list),
                  scraped |-> Len(results), errors |-> Len(errors),
                  sample |-> SubSeq(errors, 1, Min(10, Len(errors)))]
    /\ pc' = "done"
    /\ UNCHANGED <<max_workers, pharmacy_list, basic_info, futures, worker, last_task,
                   yielded, cur, completed, results, errors, slept, csv,
                   listing_resp, raised>>

Next ==
    \/ GetPharmacyIds
    \/ EnterScrape
    \/ Submit
    \/ \E w \in DOMAIN worker : WorkerStart(w)
    \/ \E w \in DOMAIN worker : WorkerFinish(w)
    \/ \E i \in DOMAIN futures : Collect(i)
    \/ Sleep
    \/ Return
    \/ SaveToCsv
    \/ Summary

Spec == Init /\ [][Next]_vars

\* Every thread that can take a step takes one in the end: a request returns
\* within TIMEOUT (line 73) or with the server's answer, the sleep of line 231
\* ends, and the threads are scheduled by the operating system.
FairSpec == Spec /\ WF_vars(Next)

\* ------------------------------------------------ the functions on their own
\* scrape_pharmacy_page, the loop body and save_to_csv called directly, on
\* every page of AllPages: the page is scraped, then either scraped again
\* (in the same process, or in a new one with its own hash order) or its
\* outcome is put through the loop body and the rows through save_to_csv.
OkResponse(page) == [kind |-> "response", status_code |-> 200, page |-> page]

\* lookups the loop body is given: with the identifier (full and sparse
\* entry), without it, and empty
Lookups ==
    {BasicInfo(<<ListingEntry(1, 101)>>), BasicInfo(<<ListingEntry(2, 101)>>),
     BasicInfo(<<ListingEntry(1, 102)>>), BasicInfo(<<>>)}

\* a record that lacks most columns and carries a key that is no column
OtherRow == [id |-> 102, name |-> "Kanon", extra |-> "x"]

\* the sequences save_to_csv is given
CsvInputs(rows) ==
    IF rows = <<>> THEN {<<OtherRow>>}
    ELSE {rows, <<OtherRow>>, rows \o <<OtherRow>>, <<OtherRow>> \o rows}

FnInit ==
    /\ pc = "direct"
    /\ max_workers = 1
    /\ pharmacy_list = <<>>
    /\ basic_info = <<>>
    /\ futures = <<>>
    /\ worker = [w \in Slots(max_workers) |-> 0]
    /\ last_task = [w \in Slots(max_workers) |-> 0]
    /\ yielded = {}
    /\ cur = 0
    /\ completed = 0
    /\ results = <<>>
    /\ errors = <<>>
    /\ slept = {}
    /\ csv = NoFile
    /\ report = NoReport
    /\ listing_resp = NoResponse
    /\ raised = ""
    /\ hash_order \in HashOrders
    /\ fn_pc = "ready"
    /\ fn_in \in [pharmacy_id : {101}, page : AllPages]
    /\ fn_out = <<>>

\* scrape_pharmacy_page(session, pharmacy_id) on a page fetched with status 200
CallScrape ==
    /\ fn_pc = "ready"
    /\ fn_out' = [first |-> scrape_pharmacy_page(fn_in.pharmacy_id,
                                                 OkResponse(fn_in.page))]
    /\ fn_pc' = "scraped"
    /\ UNCHANGED <<main_vars, hash_order, fn_in>>

\* the program is started again: a new interpreter, a new hash salt
Restart ==
    /\ fn_pc = "scraped"
    /\ hash_order' \in HashOrders \ {hash_order}
    /\ fn_pc' = "restarted"
    /\ UNCHANGED <<main_vars, fn_in, fn_out>>

\* scrape_pharmacy_page once more, same identifier, same markup
CallScrapeAgain ==
    /\ fn_pc \in {"scraped", "restarted"}
    /\ fn_out' = Put(fn_out, "second",
                     scrape_pharmacy_page(fn_in.pharmacy_id, OkResponse(fn_in.page)))
    /\ fn_pc' = "rescraped"
    /\ UNCHANGED <<main_vars, hash_order, fn_in>>

\* lines 208-229 on the outcome of the call, under some lookup
CallLoopBody ==
    /\ fn_pc = "scraped"
    /\ \E info \in Lookups :
          fn_out' = Put(Put(fn_out, "info", info), "merged",
                        LoopBody(<<>>, <<>>, info, fn_in.pharmacy_id, fn_out.first))
    /\ fn_pc' = "merged"
    /\ UNCHANGED <<main_vars, hash_order, fn_in>>

\* save_to_csv(data) on the merged rows and on a record of another shape
CallSaveToCsv ==
    /\ fn_pc = "merged"
    /\ \E data \in CsvInputs(fn_out.merged.results) :
          fn_out' = Put(Put(fn_out, "data", data), "file", save_to_csv(data, NoFile))
    /\ fn_pc' = "saved"
    /\ UNCHANGED <<main_vars, hash_order, fn_in>>

FnNext ==
    \/ CallScrape
    \/ Restart
    \/ CallScrapeAgain
    \/ CallLoopBody
    \/ CallSaveToCsv

FnSpec == FnInit /\ [][FnNext]_vars

\* ------------------------------------------------------------ the claims
Returned == pc \in {"returned", "saved", "done"}

N == Len(pharmacy_list)

CountId(seq, id) == Cardinality({k \in DOMAIN seq : seq[k].id = id})

\* the listing request did not give a list
ListingFailed(resp) ==
    \/ resp.kind = "exception"
    \/ resp.kind = "response" /\ resp.status_code # 200
    \/ resp.kind = "response" /\ resp.status_code = 200 /\ resp.block # "array"

\* the request of future i did not give a page
FetchFailed(i) ==
    \/ futures[i].resp.kind \in {"exception", "escaped"}
    \/ futures[i].resp.kind = "response" /\ futures[i].resp.status_code # 200

\* the failure record the request of future i calls for
FailureOf(i) ==
    [id |-> futures[i].id,
     error |-> IF futures[i].resp.kind = "response"
               THEN "HTTP " \o str(futures[i].resp.status_code)
               ELSE futures[i].resp.text]

\* the listing entry the lookup holds for an identifier: the last one with it
EntryOf(id) ==
    pharmacy_list[CHOOSE k \in DOMAIN pharmacy_list :
                     /\ pharmacy_list[k].id = id
                     /\ \A j \in DOMAIN pharmacy_list :
                           pharmacy_list[j].id = id => j <= k]

\* C1: when scrape_all_pharmacies has returned, len(results) + len(errors) = N
\* and every worklist item has exactly one outcome: for each identifier, the
\* rows and failure records carrying it are as many as the worklist items
\* carrying it, and no failure record sits in results. Before that, the
\* outcomes collected are as many as the loop has counted.
C1_ExactlyOneOutcome ==
    /\ Len(results) + Len(errors) = completed
    /\ completed <= N
    /\ Returned =>
         /\ Len(results) + Len(errors) = N
         /\ \A id \in UsedIds(pharmacy_list) :
               CountId(results, id) + CountId(errors, id) = CountId(pharmacy_list, id)
         /\ \A k \in DOMAIN results : "error" \notin DOMAIN results[k]
         /\ \A k \in DOMAIN errors : "error" \in DOMAIN errors[k]

C1_Witness ==
    /\ pc = "returned" /\ N = 2 /\ max_workers = 2
    /\ Len(results) = 1 /\ Len(errors) = 1
    /\ results[1].id = pharmacy_list[2].id

\* C2: when the run is over, an identifier whose fetch or extraction failed
\* has no row in results and exactly one failure record in errors.
C2_FailedIdOnlyInErrors ==
    Returned =>
        \A i \in DOMAIN futures :
            FetchFailed(i) =>
                /\ CountId(results, futures[i].id) = 0
                /\ CountId(errors, futures[i].id) = 1

\* C3: when the run is over, results hold exactly one row for each identifier
\* that is in the listing and was extracted, and never two rows with the same
\* identifier.
C3_OneRowPerId ==
    Returned =>
        /\ \A i \in DOMAIN futures :
              ~FetchFailed(i) => CountId(results, futures[i].id) = 1
        /\ \A id \in UsedIds(pharmacy_list) : CountId(results, id) <= 1

\* C4: the calls of scrape_pharmacy_page that have started and not returned
\* are never more than max_workers.
C4_InFlightBound == Cardinality(Running) <= max_workers

C4_Witness ==
    /\ Cardinality(Running) = max_workers
    /\ Pending # {}

\* C5: once scrape_all_pharmacies has returned (and so whenever the file is
\* written), every entry of the list has a future, every future is done and
\* has been handed to the loop, and no worker runs.
C5_ReturnAfterAll ==
    (Returned \/ csv.written) =>
        /\ Len(futures) = N
        /\ Pending = {} /\ Running = {}
        /\ yielded = DOMAIN futures
        /\ \A w \in DOMAIN worker : worker[w] = 0
        /\ pc # "sleeping"

C5_Witness == pc = "returned" /\ N = 2 /\ Len(futures) = 2 /\ Finished = {1, 2}

\* C6 as stated: a run with no successful record leaves a file with the
\* header row and no data row.
C6_EmptyFileWritten ==
    (pc \in {"saved", "done"} /\ results = <<>>) =>
        csv = [written |-> TRUE, header |-> columns, rows |-> <<>>]

\* C6 as amended: a run with no successful record leaves no file at all
\* (save_to_csv returns at line 240); a run with at least one leaves the
\* header and one row per record.
C6_NoFileWhenEmpty ==
    pc \in {"saved", "done"} =>
        /\ results = <<>> => csv = NoFile
        /\ results # <<>> =>
              /\ csv.written
              /\ csv.header = columns
              /\ Len(csv.rows) = Len(results)

C6_Witness ==
    /\ pc = "saved" /\ results = <<>> /\ Len(errors) = 2 /\ csv = NoFile

\* C7: a worker starts a new item only when the delay that follows its
\* previous task is over.
C7_PacedSlots ==
    [][\A w \in DOMAIN worker :
          (worker[w] = 0 /\ worker'[w] # 0 /\ last_task[w] # 0)
              => last_task[w] \in slept]_vars

\* C8: when the listing is not resolved, an exception leaves main, no detail
\* page is fetched and no file is written.
C8_ListingFailureAborts ==
    (pc # "start" /\ ListingFailed(listing_resp)) =>
        /\ pc = "aborted" /\ raised # ""
        /\ pharmacy_list = <<>> /\ futures = <<>>
        /\ \A w \in DOMAIN worker : worker[w] = 0
        /\ csv = NoFile /\ report = NoReport

C8_Witness ==
    /\ pc = "aborted"
    /\ listing_resp.kind = "response"
    /\ listing_resp.status_code = 200
    /\ listing_resp.block = "absent"

\* C9: once the listing is resolved no exception leaves main; every failed
\* future handed to the loop has its failure record with the identifier and
\* the error text; and when main is done every task has an outcome, the sink
\* has run and the report counts the failures.
C9_FailuresNeverAbort ==
    /\ (pc # "start" /\ ~ListingFailed(listing_resp)) =>
          pc # "aborted" /\ raised = ""
    /\ \A i \in yielded :
          FetchFailed(i) => \E k \in DOMAIN errors : errors[k] = FailureOf(i)
    /\ pc = "done" =>
          /\ Finished = DOMAIN futures /\ Len(futures) = N
          /\ report.printed
          /\ report.errors = Cardinality({i \in DOMAIN futures : FetchFailed(i)})
          /\ report.scraped + report.errors = report.total

C9_Witness ==
    /\ pc = "done" /\ N = 2
    /\ futures[1].resp.kind = "escaped"
    /\ ~FetchFailed(2)
    /\ csv.written /\ report.printed /\ report.errors = 1

\* C10: the rows and the failure records of a finished run are a function of
\* the listing and of what each request gave, whatever the order of
\* completion; the listing columns of a row are those of the entry the
\* lookup holds for the row's identifier.
C10_OrderIndependentMerge ==
    Returned =>
        /\ Range(results) =
              {Merge(Extract(futures[i].id, futures[i].resp.page), EntryOf(futures[i].id)) :
                  i \in {j \in DOMAIN futures : ~FetchFailed(j)}}
        /\ Range(errors) = {FailureOf(i) : i \in {j \in DOMAIN futures : FetchFailed(j)}}
        /\ \A k \in DOMAIN results :
              LET row == results[k]
                  e == EntryOf(row.id)
              IN /\ row.thumb_image = e.thumbImg
                 /\ row.pharmacy_name_main = e.pharmacyName
                 /\ row.is_duty_24h = str(e.isduty)

C10_Witness ==
    /\ pc = "returned" /\ N = 2 /\ Len(results) = 2
    /\ pharmacy_list[1].id # pharmacy_list[2].id
    /\ results[1].id = pharmacy_list[2].id
    /\ results[2].id = pharmacy_list[1].id

\* the record the first direct call returned
FirstRecord == fn_out.first.value

Scraped == "first" \in DOMAIN fn_out

\* the keys of a DetailRecord (lines 82-177)
DetailKeys ==
    {"id", "name", "description", "region", "address", "contact_phone",
     "has_optika_service", "latitude", "longitude", "image_url", "all_phones",
     "insurance_partners", "gallery_images", "gallery_count", "google_maps_url",
     "page_url"}

\* C11: in every record scrape_pharmacy_page returns, google_maps_url is
\* non-empty exactly when latitude and longitude both are, and it is then the
\* link ending in latitude, a comma, longitude; the coordinates are the
\* numbers of the script's literals, without their parentheses.
C11_MapsLinkIffCoordinates ==
    Scraped =>
        /\ ~fn_out.first.raised
        /\ (FirstRecord.google_maps_url # "")
              <=> (FirstRecord.latitude # "" /\ FirstRecord.longitude # "")
        /\ FirstRecord.google_maps_url # "" =>
              /\ FirstRecord.google_maps_url =
                    "https://www.google.com/maps?q=" \o FirstRecord.latitude
                        \o "," \o FirstRecord.longitude
              /\ FirstRecord.latitude = fn_in.page.script.lat.num
              /\ FirstRecord.longitude = fn_in.page.script.lng.num

C11_Witness ==
    /\ fn_pc = "scraped"
    /\ "script" \in DOMAIN fn_in.page
    /\ fn_in.page.script.lat = Literal(TRUE, "40.123")
    /\ fn_in.page.script.lng = Literal(TRUE, "49.456")
    /\ FirstRecord.latitude = "40.123"
    /\ FirstRecord.longitude = "49.456"
    /\ FirstRecord.google_maps_url = "https://www.google.com/maps?q=40.123,49.456"

\* C12: for a page with status 200, whichever blocks are absent, the call
\* returns a record without 'error' that has every key of the DetailRecord,
\* name included, with the default value for each absent block.
C12_EveryFieldPresent ==
    Scraped =>
        /\ ~fn_out.first.raised
        /\ "error" \notin DOMAIN FirstRecord
        /\ DetailKeys \subseteq DOMAIN FirstRecord
        /\ "title" \notin DOMAIN fn_in.page => FirstRecord.name = ""
        /\ "description" \notin DOMAIN fn_in.page => FirstRecord.description = ""
        /\ "card_header" \notin DOMAIN fn_in.page => FirstRecord.region = ""
        /\ "contact" \notin DOMAIN fn_in.page =>
              /\ FirstRecord.address = ""
              /\ FirstRecord.contact_phone = ""
              /\ FirstRecord.has_optika_service = "0"
        /\ "script" \notin DOMAIN fn_in.page =>
              FirstRecord.latitude = "" /\ FirstRecord.longitude = ""
        /\ "aptek_pinto" \notin DOMAIN fn_in.page => FirstRecord.image_url = ""
        /\ "tel_links" \notin DOMAIN fn_in.page => FirstRecord.all_phones = ""
        /\ "partniyor" \notin DOMAIN fn_in.page => FirstRecord.insurance_partners = ""
        /\ "tab_gallery" \notin DOMAIN fn_in.page =>
              FirstRecord.gallery_images = "" /\ FirstRecord.gallery_count = "0"

\* C13: two extractions of the same identifier and the same markup return
\* the same record, field for field.
C13_ExtractionDeterministic ==
    "second" \in DOMAIN fn_out => fn_out.second = fn_out.first

\* C14: a record extracted without error whose identifier is not in the
\* lookup is appended to the rows, nothing goes to the failures, its six
\* listing columns are empty and its own fields are kept.
C14_NoListingEntryStillMerged ==
    ("merged" \in DOMAIN fn_out /\ fn_in.pharmacy_id \notin DOMAIN fn_out.info) =>
        /\ fn_out.merged.errors = <<>>
        /\ Len(fn_out.merged.results) = 1
        /\ \A k \in ListingKeys : fn_out.merged.results[1][k] = ""
        /\ \A k \in DOMAIN FirstRecord : fn_out.merged.results[1][k] = FirstRecord[k]

C14_Witness ==
    /\ fn_pc = "merged"
    /\ DOMAIN fn_out.info = {102}
    /\ Len(fn_out.merged.results) = 1
    /\ fn_out.merged.results[1].id = 101
    /\ fn_out.merged.results[1].has_optika = ""

\* C15: for a non-empty sequence of records save_to_csv writes the header,
\* the columns in their fixed order, then one row per record in input order;
\* a row has one cell per column, a key that is no column leaves no cell, and
\* the cell of a column the record lacks is empty.
C15_CsvLayout ==
    ("file" \in DOMAIN fn_out /\ fn_out.data # <<>>) =>
        /\ fn_out.file.written
        /\ fn_out.file.header = columns
        /\ Len(fn_out.file.header) = 22
        /\ Len(fn_out.file.rows) = Len(fn_out.data)
        /\ \A k \in DOMAIN fn_out.data :
              LET rec == fn_out.data[k]
                  row == fn_out.file.rows[k]
              IN /\ Len(row) = Len(columns)
                 /\ row[1] = str(rec.id)
                 /\ \A c \in 2..Len(columns) :
                       row[c] = IF columns[c] \in DOMAIN rec THEN rec[columns[c]] ELSE ""
                 /\ "extra" \in DOMAIN rec => \A c \in DOMAIN row : row[c] # rec.extra

C15_Witness ==
    /\ fn_pc = "saved"
    /\ Len(fn_out.data) = 2
    /\ fn_out.data[1] = OtherRow
    /\ fn_out.data[2].id = 101
    /\ "name" \notin DOMAIN fn_out.data[2]
    /\ fn_out.file.rows[1][1] = "102"
    /\ fn_out.file.rows[2][1] = "101"
    /\ fn_out.file.rows[2][2] = ""

IsPrefix(a, b) == Len(a) <= Len(b) /\ SubSeq(b, 1, Len(a)) = a

\* C16: results and errors change only in a step of the coordinating thread's
\* loop body, which appends one outcome to one of them, that of the future it
\* was just handed; a step of a worker leaves both as they are.
C16_SingleWriter ==
    [][/\ (worker' # worker \/ futures' # futures) =>
              (results' = results /\ errors' = errors)
       /\ (results' # results \/ errors' # errors) =>
              /\ pc = "collecting" /\ pc' = "sleeping"
              /\ yielded' = yielded \cup {cur'} /\ cur' \notin yielded
              /\ IsPrefix(results, results') /\ IsPrefix(errors, errors')
              /\ Len(results') + Len(errors') = Len(results) + Len(errors) + 1]_vars

C16_Witness ==
    /\ pc = "sleeping" /\ max_workers = 2
    /\ Finished = {1, 2}
    /\ Len(results) + Len(errors) = 1

\* C17: under fair scheduling, once the listing is resolved
\* scrape_all_pharmacies returns; and the work is the listing's: futures are
\* submitted only before the loop starts, one per entry, never more.
C17_EventuallyReturns ==
    /\ (pc = "listed") ~> (pc = "returned")
    /\ [][/\ Len(futures') >= Len(futures)
          /\ Len(futures') <= Len(pharmacy_list')
          /\ pc \notin {"start", "listed", "submitting"} =>
                Len(futures') = Len(futures)]_vars

C17_Witness ==
    /\ pc = "returned" /\ max_workers = 1 /\ N = 2
    /\ \E i \in DOMAIN futures : futures[i].resp.kind = "exception"

====
